---- MODULE Spec2Model ----
(***************************************************************************)
(* A model of the nutrient query and guideline-matching engine:            *)
(* NutritionalGuidelines (src/src/nutritional_guidelines.py) and           *)
(* NutrientProcessor (src/src/nutrient_processor.py), and of the request   *)
(* loop of USDAFoodDataClient (src/src/usda_api.py).                       *)
(*                                                                         *)
(* Strings are sequences of one-character strings, so that substring,      *)
(* lowercasing, escaping and splitting are computed, not assumed.          *)
(* Amounts (Python floats) are fixed-point integers in hundredths:         *)
(* 1.2 mg is 120.  A value that may be None is <<>> (None) or <<v>>.       *)
(***************************************************************************)
EXTENDS Integers, Sequences, FiniteSets, TLC

VARIABLES guidelines, gender, df, client, pc, call, ret

vars == <<guidelines, gender, df, client, pc, call, ret>>

----------------------------------------------------------------------------
(* Bounds of the model.                                                    *)

\* rows of the loaded table
MaxRows == 2
\* items of one get_nutrient_profile request
MaxItems == 2
\* largest top_n of a get_top_foods_for_nutrient request
MaxTopN == 2
\* the largest max_retries given to the client
MaxRetries == 3

----------------------------------------------------------------------------
(* Optional values and strings.                                            *)

None == << >>

Some(v) == << v >>

IsNone(x) == x = << >>

\* Python truthiness of an optional number: None and 0 are false
Truthy(x) == x # << >> /\ x[1] # 0

UpperLetters ==
    << "A", "B", "C", "D", "E", "F", "G", "H", "I", "J", "K", "L", "M",
       "N", "O", "P", "Q", "R", "S", "T", "U", "V", "W", "X", "Y", "Z" >>

LowerLetters ==
    << "a", "b", "c", "d", "e", "f", "g", "h", "i", "j", "k", "l", "m",
       "n", "o", "p", "q", "r", "s", "t", "u", "v", "w", "x", "y", "z" >>

LowerChar(c) ==
    IF \E i \in 1..26 : UpperLetters[i] = c
    THEN LowerLetters[CHOOSE i \in 1..26 : UpperLetters[i] = c]
    ELSE c

\* str.lower() / str.to_lowercase() on ASCII text
Lower(s) == [i \in 1..Len(s) |-> LowerChar(s[i])]

\* Python's `sub in s`
Contains(s, sub) ==
    \E k \in 0..(Len(s) - Len(sub)) :
        \A i \in 1..Len(sub) : s[k + i] = sub[i]

\* str.replace(ch, "")
RECURSIVE RemoveChar(_, _)
RemoveChar(s, ch) ==
    IF s = << >> THEN << >>
    ELSE IF Head(s) = ch THEN RemoveChar(Tail(s), ch)
    ELSE << Head(s) >> \o RemoveChar(Tail(s), ch)

\* str.split(ch)[0]
RECURSIVE FirstSegment(_, _)
FirstSegment(s, ch) ==
    IF s = << >> \/ Head(s) = ch THEN << >>
    ELSE << Head(s) >> \o FirstSegment(Tail(s), ch)

\* str.strip() on text whose only whitespace is the space
RECURSIVE LStrip(_)
LStrip(s) ==
    IF s # << >> /\ Head(s) = " " THEN LStrip(Tail(s)) ELSE s

RECURSIVE RStrip(_)
RStrip(s) ==
    IF s # << >> /\ s[Len(s)] = " " THEN RStrip(SubSeq(s, 1, Len(s) - 1)) ELSE s

Strip(s) == RStrip(LStrip(s))

----------------------------------------------------------------------------
(* NutritionalGuidelines.                                                  *)

NutrientRequirement(key, rda_male, rda_female, upper_limit, unit, name) ==
    [key |-> key, rda_male |-> rda_male, rda_female |-> rda_female,
     upper_limit |-> upper_limit, unit |-> unit, name |-> name]

\* the dict of _load_official_guidelines, in insertion order; values in
\* hundredths; the unit "ug" stands for the microgram sign
load_official_guidelines ==
    << NutrientRequirement(<<"v", "i", "t", "a", "m", "i", "n", "_", "a", "_", "u", "g">>,
           Some(90000), Some(70000), Some(300000), "ug", "Vitamin A"),
       NutrientRequirement(<<"v", "i", "t", "a", "m", "i", "n", "_", "d", "_", "u", "g">>,
           Some(1500), Some(1500), Some(10000), "ug", "Vitamin D"),
       NutrientRequirement(<<"v", "i", "t", "a", "m", "i", "n", "_", "e", "_", "m", "g">>,
           Some(1500), Some(1500), Some(100000), "mg", "Vitamin E"),
       NutrientRequirement(<<"v", "i", "t", "a", "m", "i", "n", "_", "k", "_", "u", "g">>,
           Some(12000), Some(9000), None, "ug", "Vitamin K"),
       NutrientRequirement(<<"v", "i", "t", "a", "m", "i", "n", "_", "c", "_", "m", "g">>,
           Some(9000), Some(7500), Some(200000), "mg", "Vitamin C"),
       NutrientRequirement(<<"t", "h", "i", "a", "m", "i", "n", "_", "m", "g">>,
           Some(120), Some(110), None, "mg", "Thiamin (B1)"),
       NutrientRequirement(<<"r", "i", "b", "o", "f", "l", "a", "v", "i", "n", "_", "m", "g">>,
           Some(130), Some(110), None, "mg", "Riboflavin (B2)"),
       NutrientRequirement(<<"n", "i", "a", "c", "i", "n", "_", "m", "g">>,
           Some(1600), Some(1400), Some(3500), "mg", "Niacin (B3)"),
       NutrientRequirement(<<"v", "i", "t", "a", "m", "i", "n", "_", "b", "6", "_", "m", "g">>,
           Some(130), Some(130), Some(10000), "mg", "Vitamin B6"),
       NutrientRequirement(<<"f", "o", "l", "a", "t", "e", "_", "u", "g">>,
           Some(40000), Some(40000), Some(100000), "ug", "Folate"),
       NutrientRequirement(<<"v", "i", "t", "a", "m", "i", "n", "_", "b", "1", "2", "_", "u", "g">>,
           Some(240), Some(240), None, "ug", "Vitamin B12"),
       NutrientRequirement(<<"c", "a", "l", "c", "i", "u", "m", "_", "m", "g">>,
           Some(100000), Some(100000), Some(250000), "mg", "Calcium"),
       NutrientRequirement(<<"i", "r", "o", "n", "_", "m", "g">>,
           Some(800), Some(1800), Some(4500), "mg", "Iron"),
       NutrientRequirement(<<"m", "a", "g", "n", "e", "s", "i", "u", "m", "_", "m", "g">>,
           Some(40000), Some(31000), Some(35000), "mg", "Magnesium"),
       NutrientRequirement(<<"p", "h", "o", "s", "p", "h", "o", "r", "u", "s", "_", "m", "g">>,
           Some(70000), Some(70000), Some(400000), "mg", "Phosphorus"),
       NutrientRequirement(<<"p", "o", "t", "a", "s", "s", "i", "u", "m", "_", "m", "g">>,
           Some(340000), Some(260000), None, "mg", "Potassium"),
       NutrientRequirement(<<"s", "o", "d", "i", "u", "m", "_", "m", "g">>,
           Some(150000), Some(150000), Some(230000), "mg", "Sodium"),
       NutrientRequirement(<<"z", "i", "n", "c", "_", "m", "g">>,
           Some(1100), Some(800), Some(4000), "mg", "Zinc"),
       NutrientRequirement(<<"c", "o", "p", "p", "e", "r", "_", "m", "g">>,
           Some(90), Some(90), Some(1000), "mg", "Copper"),
       NutrientRequirement(<<"s", "e", "l", "e", "n", "i", "u", "m", "_", "u", "g">>,
           Some(5500), Some(5500), Some(40000), "ug", "Selenium"),
       NutrientRequirement(<<"m", "a", "n", "g", "a", "n", "e", "s", "e", "_", "m", "g">>,
           Some(230), Some(180), Some(1100), "mg", "Manganese"),
       NutrientRequirement(<<"c", "h", "r", "o", "m", "i", "u", "m", "_", "u", "g">>,
           Some(3500), Some(2500), None, "ug", "Chromium"),
       NutrientRequirement(<<"m", "o", "l", "y", "b", "d", "e", "n", "u", "m", "_", "u", "g">>,
           Some(4500), Some(4500), Some(200000), "ug", "Molybdenum"),
       NutrientRequirement(<<"i", "o", "d", "i", "n", "e", "_", "u", "g">>,
           Some(15000), Some(15000), Some(110000), "ug", "Iodine"),
       NutrientRequirement(<<"p", "r", "o", "t", "e", "i", "n", "_", "g">>,
           Some(5600), Some(4600), None, "g", "Protein"),
       NutrientRequirement(<<"f", "i", "b", "e", "r", "_", "g">>,
           Some(3800), Some(2500), None, "g", "Dietary Fiber"),
       NutrientRequirement(<<"s", "a", "t", "u", "r", "a", "t", "e", "d", "_", "f", "a", "t", "_", "g">>,
           None, None, Some(2000), "g", "Saturated Fat"),
       NutrientRequirement(<<"c", "h", "o", "l", "e", "s", "t", "e", "r", "o", "l", "_", "m", "g">>,
           None, None, Some(30000), "mg", "Cholesterol"),
       NutrientRequirement(<<"s", "u", "g", "a", "r", "s", "_", "g">>,
           None, None, Some(5000), "g", "Added Sugars") >>

\* `key in self.guidelines`
HasKey(g, key) == \E i \in 1..Len(g) : g[i].key = key

\* `self.guidelines[key]`
Lookup(g, key) == g[CHOOSE i \in 1..Len(g) : g[i].key = key]

Mean(a, b) == (a + b) \div 2

RdaValueMutC8(req, sex) ==
    IF sex = "male" /\ ~IsNone(req.rda_male) THEN req.rda_male
    ELSE IF sex = "female" /\ ~IsNone(req.rda_female) THEN req.rda_female
    ELSE IF ~IsNone(req.rda_male) THEN req.rda_male
    ELSE IF ~IsNone(req.rda_female) THEN req.rda_female
    ELSE None

\* the rda_value chosen by get_requirement
RdaValue(req, sex) ==
    IF sex = "male" /\ ~IsNone(req.rda_male) THEN req.rda_male
    ELSE IF sex = "female" /\ ~IsNone(req.rda_female) THEN req.rda_female
    ELSE IF ~IsNone(req.rda_male) /\ ~IsNone(req.rda_female)
         THEN Some(Mean(req.rda_male[1], req.rda_female[1]))
    ELSE IF ~IsNone(req.rda_male) THEN req.rda_male
    ELSE IF ~IsNone(req.rda_female) THEN req.rda_female
    ELSE None

\* get_requirement: the empty dict is [empty |-> TRUE]
get_requirement(g, nutrient_key, sex) ==
    IF ~HasKey(g, nutrient_key) THEN [empty |-> TRUE]
    ELSE LET req == Lookup(g, nutrient_key)
         IN  [empty |-> FALSE,
              nutrient |-> req.name,
              rda |-> RdaValue(req, sex),
              upper_limit |-> req.upper_limit,
              unit |-> req.unit,
              gender_specific |-> [male |-> req.rda_male,
                                   female |-> req.rda_female]]

\* the test of the fuzzy-matching loop of match_nutrient_key
FuzzyMatches(key, nutrient_column) ==
    /\ Contains(Lower(nutrient_column), FirstSegment(key, "_"))
    /\ Contains(RemoveChar(nutrient_column, "_"), RemoveChar(key, "_"))

FuzzyIndexMutC7(g, nutrient_column) ==
    { i \in 1..Len(g) : Contains(Lower(nutrient_column), FirstSegment(g[i].key, "_")) }

FuzzyIndex(g, nutrient_column) ==
    { i \in 1..Len(g) : FuzzyMatches(g[i].key, nutrient_column) }

Min(S) == CHOOSE x \in S : \A y \in S : x <= y

\* match_nutrient_key: the empty string is << >>
match_nutrient_key(g, nutrient_column) ==
    IF HasKey(g, nutrient_column) THEN nutrient_column
    ELSE LET hits == FuzzyIndex(g, nutrient_column)
         IN  IF hits = {} THEN << >> ELSE g[Min(hits)].key

\* get_all_requirements: the dict of get_requirement for every registry key,
\* in the order of the registry
get_all_requirements(g, sex) ==
    [i \in 1..Len(g) |-> [key |-> g[i].key, value |-> get_requirement(g, g[i].key, sex)]]

\* json.dump of None, of a float and of a str
JsonNull == [json |-> "null"]

JsonNumber(optional) ==
    IF IsNone(optional) THEN JsonNull ELSE [json |-> "number", val |-> optional[1]]

JsonString(s) == [json |-> "string", val |-> s]

\* the export with rda_male written in the place of rda_female
SaveToJsonMutC22(g) ==
    [i \in 1..Len(g) |->
        [key |-> JsonString(g[i].key),
         object |-> [rda_male |-> JsonNumber(g[i].rda_male),
                     rda_female |-> JsonNumber(g[i].rda_male),
                     upper_limit |-> JsonNumber(g[i].upper_limit),
                     unit |-> JsonString(g[i].unit),
                     name |-> JsonString(g[i].name)]]]

\* save_to_json: the document written to the file, one object per registry
\* key with the five fields of its requirement
save_to_json(g) ==
    [i \in 1..Len(g) |->
        [key |-> JsonString(g[i].key),
         object |-> [rda_male |-> JsonNumber(g[i].rda_male),
                     rda_female |-> JsonNumber(g[i].rda_female),
                     upper_limit |-> JsonNumber(g[i].upper_limit),
                     unit |-> JsonString(g[i].unit),
                     name |-> JsonString(g[i].name)]]]

\* json.load of a number or null, as an optional value
FromJsonNumber(v) == IF v.json = "null" THEN None ELSE Some(v.val)

\* the import of an exported document: one NutrientRequirement per object,
\* built from its five fields, in the order of the document
load_from_json(document) ==
    [i \in 1..Len(document) |->
        NutrientRequirement(document[i].key.val,
                            FromJsonNumber(document[i].object.rda_male),
                            FromJsonNumber(document[i].object.rda_female),
                            FromJsonNumber(document[i].object.upper_limit),
                            document[i].object.unit.val,
                            document[i].object.name.val)]

----------------------------------------------------------------------------
(* The food table: a frame is [columns, rows]; pl.DataFrame() is           *)
(* EmptyFrame.  A row of the table holds the five metadata fields and      *)
(* `amount`, the nutrient amounts in hundredths, in nutrient-column order. *)

EmptyFrame == [columns |-> << >>, rows |-> << >>]

\* DataFrame.is_empty(): no rows
IsEmpty(frame) == frame.rows = << >>

MetadataCols ==
    << <<"f", "d", "c", "_", "i", "d">>, <<"d", "e", "s", "c", "r", "i", "p", "t", "i", "o", "n">>, <<"d", "a", "t", "a", "_", "t", "y", "p", "e">>, <<"s", "e", "r", "v", "i", "n", "g", "_", "s", "i", "z", "e">>, <<"s", "e", "r", "v", "i", "n", "g", "_", "u", "n", "i", "t">> >>

NutrientCols ==
    << <<"e", "n", "e", "r", "g", "y", "_", "k", "c", "a", "l">>, <<"i", "r", "o", "n", "_", "m", "g">>, <<"v", "i", "t", "a", "m", "i", "n", "_", "c", "_", "m", "g">>, <<"s", "a", "t", "u", "r", "a", "t", "e", "d", "_", "f", "a", "t", "_", "g">> >>

\* the columns written by process_food_data: metadata first, then nutrients
TableColumns == MetadataCols \o NutrientCols

InSeq(x, s) == \E i \in 1..Len(s) : s[i] = x

IndexOf(x, s) == CHOOSE i \in 1..Len(s) : s[i] = x

\* the value of column `col` in `row`
Cell(row, col) ==
    IF col = MetadataCols[1] THEN row.fdc_id
    ELSE IF col = MetadataCols[2] THEN row.description
    ELSE IF col = MetadataCols[3] THEN row.data_type
    ELSE IF col = MetadataCols[4] THEN row.serving_size
    ELSE IF col = MetadataCols[5] THEN row.serving_unit
    ELSE row.amount[IndexOf(col, NutrientCols)]

\* the nutrient columns without the guard of an empty table
AvailableNutrientsMutC15(frame) ==
    LET keep(col) == ~InSeq(col, MetadataCols)
    IN  SelectSeq(frame.columns, keep)

\* get_available_nutrients
get_available_nutrients(frame) ==
    IF IsEmpty(frame) THEN << >>
    ELSE LET keep(col) == ~InSeq(col, MetadataCols)
         IN  SelectSeq(frame.columns, keep)

----------------------------------------------------------------------------
(* re.escape, re.sub and the regular expressions of str.contains.  The     *)
(* request strings of this model use the metacharacters ( ) . and \ only:  *)
(* a backslash makes the next character literal, a dot matches any         *)
(* character, a group without quantifier matches what its content matches, *)
(* and a pattern with an unbalanced parenthesis does not compile.          *)

\* the characters re.escape puts a backslash before
ReSpecialChars ==
    { "(", ")", "[", "]", "{", "}", "?", "*", "+", "-", "|", "^", "$",
      "\\", ".", "&", "~", "#", " " }

RECURSIVE ReEscape(_)
ReEscape(s) ==
    IF s = << >> THEN << >>
    ELSE (IF Head(s) \in ReSpecialChars THEN << "\\", Head(s) >> ELSE << Head(s) >>)
         \o ReEscape(Tail(s))

RECURSIVE Tokens(_)
Tokens(p) ==
    IF p = << >> THEN << >>
    ELSE IF Head(p) = "\\"
         THEN IF Len(p) >= 2
              THEN << [kind |-> "lit", ch |-> p[2]] >> \o Tokens(SubSeq(p, 3, Len(p)))
              ELSE << [kind |-> "bad", ch |-> "\\"] >>
    ELSE IF Head(p) = "." THEN << [kind |-> "any", ch |-> "."] >> \o Tokens(Tail(p))
    ELSE IF Head(p) = "(" THEN << [kind |-> "open", ch |-> "("] >> \o Tokens(Tail(p))
    ELSE IF Head(p) = ")" THEN << [kind |-> "close", ch |-> ")"] >> \o Tokens(Tail(p))
    ELSE << [kind |-> "lit", ch |-> Head(p)] >> \o Tokens(Tail(p))

RECURSIVE Balanced(_, _)
Balanced(toks, depth) ==
    IF toks = << >> THEN depth = 0
    ELSE IF Head(toks).kind = "bad" THEN FALSE
    ELSE IF Head(toks).kind = "open" THEN Balanced(Tail(toks), depth + 1)
    ELSE IF Head(toks).kind = "close"
         THEN depth > 0 /\ Balanced(Tail(toks), depth - 1)
    ELSE Balanced(Tail(toks), depth)

\* whether the pattern compiles; str.contains raises when it does not
RegexValid(p) == Balanced(Tokens(p), 0)

\* str.contains(p) of one text, for a pattern that compiles
RegexContains(text, p) ==
    LET isAtom(t) == t.kind \in {"lit", "any"}
        atoms == SelectSeq(Tokens(p), isAtom)
    IN  \E k \in 0..(Len(text) - Len(atoms)) :
            \A i \in 1..Len(atoms) :
                atoms[i].kind = "any" \/ atoms[i].ch = text[k + i]

\* re.sub(r'\([^)]*\)', '', s)
RECURSIVE StripParens(_)
StripParens(s) ==
    IF s = << >> THEN << >>
    ELSE IF Head(s) = "(" /\ \E j \in 2..Len(s) : s[j] = ")"
         THEN LET j == Min({ i \in 2..Len(s) : s[i] = ")" })
              IN  StripParens(SubSeq(s, j + 1, Len(s)))
    ELSE << Head(s) >> \o StripParens(Tail(s))

----------------------------------------------------------------------------
(* NutrientProcessor.get_food_nutrients.                                   *)

\* the filter without str.to_lowercase() on the description
FilterContainsMutC20(frame, p) ==
    LET hit(row) == RegexContains(row.description, p)
    IN  SelectSeq(frame.rows, hit)

\* df.filter(pl.col("description").str.to_lowercase().str.contains(p))
FilterContains(frame, p) ==
    LET hit(row) == RegexContains(Lower(row.description), p)
    IN  SelectSeq(frame.rows, hit)

ExactMatches(frame, food_name) ==
    LET hit(row) == row.description = food_name
    IN  SelectSeq(frame.rows, hit)

SimpleName(food_name) == Lower(Strip(StripParens(food_name)))

ResolveMutC1(frame, food_name) ==
    LET exact == ExactMatches(frame, food_name)
        p2 == ReEscape(Lower(food_name))
        p3 == ReEscape(Lower(StripParens(food_name)))
        partial == FilterContains(frame, p2)
        simple == FilterContains(frame, p3)
    IN  IF exact # << >> THEN [raised |-> FALSE, tier |-> 1, matches |-> exact]
        ELSE IF ~RegexValid(p2) THEN [raised |-> TRUE, tier |-> 0, matches |-> << >>]
        ELSE IF partial # << >> THEN [raised |-> FALSE, tier |-> 2, matches |-> partial]
        ELSE IF ~RegexValid(p3) THEN [raised |-> TRUE, tier |-> 0, matches |-> << >>]
        ELSE IF simple # << >> THEN [raised |-> FALSE, tier |-> 3, matches |-> simple]
        ELSE [raised |-> FALSE, tier |-> 0, matches |-> << >>]

\* lines 85-106: the matches of a food name and the tier that found them
\* (0: none); raised when str.contains is given a pattern that does not
\* compile
Resolve(frame, food_name) ==
    LET exact == ExactMatches(frame, food_name)
        p2 == ReEscape(Lower(food_name))
        p3 == ReEscape(SimpleName(food_name))
        partial == FilterContains(frame, p2)
        simple == FilterContains(frame, p3)
    IN  IF exact # << >> THEN [raised |-> FALSE, tier |-> 1, matches |-> exact]
        ELSE IF ~RegexValid(p2) THEN [raised |-> TRUE, tier |-> 0, matches |-> << >>]
        ELSE IF partial # << >> THEN [raised |-> FALSE, tier |-> 2, matches |-> partial]
        ELSE IF ~RegexValid(p3) THEN [raised |-> TRUE, tier |-> 0, matches |-> << >>]
        ELSE IF simple # << >> THEN [raised |-> FALSE, tier |-> 3, matches |-> simple]
        ELSE [raised |-> FALSE, tier |-> 0, matches |-> << >>]

\* melt(id_vars=["description"]): one row per nutrient column and matched
\* row, column by column
RECURSIVE Melt(_, _)
Melt(rows, cols) ==
    IF cols = << >> THEN << >>
    ELSE [i \in 1..Len(rows) |->
             [description |-> rows[i].description,
              nutrient |-> Head(cols),
              amount |-> Cell(rows[i], Head(cols))]]
         \o Melt(rows, Tail(cols))

\* the long form with the zero amounts kept
FoodNutrientsMutC19(frame, food_name) ==
    IF IsEmpty(frame) THEN [raised |-> FALSE, tier |-> 0, matches |-> << >>,
                            frame |-> EmptyFrame]
    ELSE LET r == Resolve(frame, food_name)
             nonnegative(o) == o.amount >= 0
         IN  IF r.raised \/ r.matches = << >>
             THEN [raised |-> r.raised, tier |-> 0, matches |-> << >>,
                   frame |-> EmptyFrame]
             ELSE [raised |-> FALSE, tier |-> r.tier, matches |-> r.matches,
                   frame |-> [columns |-> << "description", "nutrient", "amount" >>,
                              rows |-> SelectSeq(Melt(r.matches, get_available_nutrients(frame)),
                                                 nonnegative)]]

get_food_nutrients(frame, food_name) ==
    IF IsEmpty(frame) THEN [raised |-> FALSE, tier |-> 0, matches |-> << >>,
                            frame |-> EmptyFrame]
    ELSE LET r == Resolve(frame, food_name)
             positive(o) == o.amount > 0
         IN  IF r.raised \/ r.matches = << >>
             THEN [raised |-> r.raised, tier |-> 0, matches |-> << >>,
                   frame |-> EmptyFrame]
             ELSE [raised |-> FALSE, tier |-> r.tier, matches |-> r.matches,
                   frame |-> [columns |-> << "description", "nutrient", "amount" >>,
                              rows |-> SelectSeq(Melt(r.matches, get_available_nutrients(frame)),
                                                 positive)]]

----------------------------------------------------------------------------
(* NutrientProcessor.get_top_foods_for_nutrient.                           *)

\* 28.35, the grams of an ounce, in hundredths
OunceGrams == 2835

\* a / b for the exact quotients of this model (fixed-point floats)
Div(a, b) == IF b < 0 THEN (0 - a) \div (0 - b) ELSE a \div b

\* the conversion with the serving size taken to be 100 g
AmountPerOunceMutC13(value, serving_size) ==
    [inf |-> FALSE, val |-> Div(value * OunceGrams, 100)]

\* value * 28.35 / serving_size in ten-thousandths; polars divides floats, so
\* a positive value over 0 is infinite
AmountPerOunce(value, serving_size) ==
    IF serving_size = 0 THEN [inf |-> TRUE, val |-> 0]
    ELSE [inf |-> FALSE, val |-> Div(value * OunceGrams, serving_size)]

\* a >= b on amounts per ounce
ApoGeq(a, b) == a.inf \/ (~b.inf /\ a.val >= b.val)

\* [col for col in self.df.columns if nutrient_name.lower() in col.lower()]
MatchingColumns(frame, nutrient_name) ==
    LET hit(col) == Contains(Lower(col), Lower(nutrient_name))
    IN  SelectSeq(frame.columns, hit)

\* columns of the table that hold text
TextCols == { MetadataCols[2], MetadataCols[3], MetadataCols[5] }

\* select raises on a repeated column name, and `> 0` on a text column
RankRaises(nutrient_col) ==
    nutrient_col = MetadataCols[2] \/ nutrient_col = MetadataCols[4]
        \/ nutrient_col \in TextCols

\* the rows of lines 151-159, in table order
RankCandidates(frame, nutrient_col) ==
    LET positive(row) == Cell(row, nutrient_col) > 0
        kept == SelectSeq(frame.rows, positive)
    IN  [i \in 1..Len(kept) |->
            [description |-> kept[i].description,
             amount_per_100g |-> Cell(kept[i], nutrient_col),
             serving_size |-> kept[i].serving_size,
             amount_per_ounce |-> AmountPerOunce(Cell(kept[i], nutrient_col),
                                                 kept[i].serving_size)]]

IndexPermutations(n) ==
    { f \in [1..n -> 1..n] : \A i, j \in 1..n : i # j => f[i] # f[j] }

\* sort("amount_per_ounce", descending=True): every descending order; the
\* order of rows with equal keys is not fixed by maintain_order=False
SortedDescending(rows) ==
    { [i \in 1..Len(rows) |-> rows[f[i]]] : f \in
        { f \in IndexPermutations(Len(rows)) :
            \A i \in 1..(Len(rows) - 1) :
                ApoGeq(rows[f[i]].amount_per_ounce, rows[f[i + 1]].amount_per_ounce) } }

\* DataFrame.head(n): a negative n keeps all but the last -n rows
HeadRows(rows, n) ==
    IF n >= 0 THEN SubSeq(rows, 1, IF n < Len(rows) THEN n ELSE Len(rows))
    ELSE SubSeq(rows, 1, Len(rows) + n)

RankedColumns == << "description", "amount_per_100g", "serving_size", "amount_per_ounce" >>

\* the results get_top_foods_for_nutrient can return
get_top_foods_for_nutrient(frame, nutrient_name, top_n) ==
    IF IsEmpty(frame)
    THEN { [raised |-> FALSE, nutrient_col |-> << >>, frame |-> EmptyFrame] }
    ELSE LET nutrient_cols == MatchingColumns(frame, nutrient_name)
         IN  IF nutrient_cols = << >>
             THEN { [raised |-> FALSE, nutrient_col |-> << >>, frame |-> EmptyFrame] }
             ELSE LET nutrient_col == nutrient_cols[1]
                  IN  IF RankRaises(nutrient_col)
                      THEN { [raised |-> TRUE, nutrient_col |-> nutrient_col,
                              frame |-> EmptyFrame] }
                      ELSE { [raised |-> FALSE, nutrient_col |-> nutrient_col,
                              frame |-> [columns |-> RankedColumns,
                                         rows |-> HeadRows(sorted, top_n)]] :
                             sorted \in SortedDescending(RankCandidates(frame, nutrient_col)) }

----------------------------------------------------------------------------
(* NutrientProcessor.get_nutrient_profile.                                 *)

ScaledMutC5(value, amount_g, serving_size) ==
    Div(value * amount_g, 100)

\* (value * amount_g) / serving_size, for a serving_size that is not 0
Scaled(value, amount_g, serving_size) ==
    Div(value * amount_g, serving_size)

\* nutrient_totals[nutrient] += v, the key added with 0 when it is new
AddTotal(totals, nutrient, v) ==
    IF \E i \in 1..Len(totals) : totals[i].nutrient = nutrient
    THEN [i \in 1..Len(totals) |->
            IF totals[i].nutrient = nutrient
            THEN [nutrient |-> nutrient, total_amount |-> totals[i].total_amount + v]
            ELSE totals[i]]
    ELSE Append(totals, [nutrient |-> nutrient, total_amount |-> 0 + v])

\* lines 200-208 for one matched row
RECURSIVE AddFood(_, _, _, _)
AddFood(totals, cols, food_data, amount_g) ==
    IF cols = << >> THEN totals
    ELSE AddFood(AddTotal(totals, Head(cols),
                          Scaled(Cell(food_data, Head(cols)), amount_g,
                                 food_data.serving_size)),
                 Tail(cols), food_data, amount_g)

\* lines 191-194: the rows the item's food name selects
ItemMatches(frame, food_name) == FilterContains(frame, Lower(food_name))

\* lines 187-208: the loop over the items.  `used` records, item by item,
\* the local food_data: << >> when the item matched no row, <<row>> when
\* its first match was scaled.  The loop raises when str.contains is given a
\* pattern that does not compile ("regex") and on the division by a
\* serving_size of 0 ("zero_division")
RECURSIVE Accumulate(_, _, _, _, _)
Accumulate(frame, cols, items, totals, used) ==
    IF items = << >>
    THEN [raised |-> FALSE, error |-> "none", totals |-> totals, used |-> used]
    ELSE LET item == Head(items)
         IN  IF ~RegexValid(Lower(item.food))
             THEN [raised |-> TRUE, error |-> "regex", totals |-> << >>, used |-> used]
             ELSE LET matches == ItemMatches(frame, item.food)
                  IN  IF matches = << >>
                      THEN Accumulate(frame, cols, Tail(items), totals,
                                      Append(used, None))
                      ELSE IF cols # << >> /\ matches[1].serving_size = 0
                      THEN [raised |-> TRUE, error |-> "zero_division",
                            totals |-> << >>, used |-> used]
                      ELSE Accumulate(frame, cols, Tail(items),
                                      AddFood(totals, cols, matches[1], item.amount_g),
                                      Append(used, Some(matches[1])))

\* the percentage taken of the upper limit when the requirement has no rda
DailyValuePctMutC18(g, sex, nutrient, total) ==
    LET matched_key == match_nutrient_key(g, nutrient)
    IN  IF matched_key = << >> THEN None
        ELSE LET req == get_requirement(g, matched_key, sex)
             IN  IF Truthy(req.rda)
                 THEN Some([num |-> total * 100, den |-> req.rda[1]])
                 ELSE IF Truthy(req.upper_limit)
                 THEN Some([num |-> total * 100, den |-> req.upper_limit[1]])
                 ELSE None

\* lines 219-231: (total / rda) * 100 as the fraction num / den, or None
DailyValuePct(g, sex, nutrient, total) ==
    LET matched_key == match_nutrient_key(g, nutrient)
    IN  IF matched_key = << >> THEN None
        ELSE LET req == get_requirement(g, matched_key, sex)
             IN  IF Truthy(req.rda)
                 THEN Some([num |-> total * 100, den |-> req.rda[1]])
                 ELSE None

get_nutrient_profile(frame, g, sex, food_items) ==
    IF IsEmpty(frame)
    THEN [raised |-> FALSE, error |-> "none", used |-> << >>, frame |-> EmptyFrame]
    ELSE LET acc == Accumulate(frame, get_available_nutrients(frame), food_items,
                               << >>, << >>)
         IN  IF acc.raised \/ acc.totals = << >>
             THEN [raised |-> acc.raised, error |-> acc.error, used |-> acc.used,
                   frame |-> EmptyFrame]
             ELSE [raised |-> FALSE, error |-> "none", used |-> acc.used,
                   frame |->
                     [columns |-> << "nutrient", "total_amount", "daily_value_pct" >>,
                      rows |-> [i \in 1..Len(acc.totals) |->
                          [nutrient |-> acc.totals[i].nutrient,
                           total_amount |-> acc.totals[i].total_amount,
                           daily_value_pct |->
                               DailyValuePct(g, sex, acc.totals[i].nutrient,
                                             acc.totals[i].total_amount)]]]]

----------------------------------------------------------------------------
(* NutrientProcessor.check_daily_requirements.                             *)

\* lines 272-277
Classify(rda, upper_limit, amount) ==
    IF Truthy(rda) /\ amount < rda[1] THEN "below_minimum"
    ELSE IF Truthy(upper_limit) /\ amount > upper_limit[1] THEN "above_maximum"
    ELSE "adequate"

\* the status dict as the sequence of its entries, in insertion order;
\* raised when the profile has no "nutrient" column
check_daily_requirements(g, sex, nutrient_profile) ==
    IF ~InSeq("nutrient", nutrient_profile.columns)
    THEN [raised |-> TRUE, status |-> << >>]
    ELSE LET matched(row) == match_nutrient_key(g, row.nutrient) # << >>
             rows == SelectSeq(nutrient_profile.rows, matched)
         IN  [raised |-> FALSE,
              status |-> [i \in 1..Len(rows) |->
                 LET req == get_requirement(g, match_nutrient_key(g, rows[i].nutrient), sex)
                 IN  [nutrient |-> rows[i].nutrient,
                      amount |-> rows[i].total_amount,
                      min |-> req.rda,
                      max |-> req.upper_limit,
                      unit |-> req.unit,
                      status |-> Classify(req.rda, req.upper_limit,
                                          rows[i].total_amount)]]]

----------------------------------------------------------------------------
(* The requests of the model.                                              *)

Genders == { "male", "female", "average" }

\* the genders a caller of get_requirement may pass
RequestGenders == Genders \cup { "other" }

Food(fdc_id, description, serving_size, amount) ==
    [fdc_id |-> fdc_id, description |-> description, data_type |-> "Foundation",
     serving_size |-> serving_size, serving_unit |-> "g", amount |-> amount]

\* the foods a table is drawn from; amounts follow NutrientCols; the third
\* row carries the data error of a serving_size of 0
FoodPool ==
    { Food(1, <<"A", "p", "p", "l", "e">>, 100, << 5200, 2600, 500, 0 >>),
      Food(2, <<"A", "p", "p", "l", "e", " ", "(", "R", "a", "w", ")">>, 50, << 2600, 1300, 400, 1000 >>),
      Food(3, <<"A", "p", "p", "l", "e", " ", "R", "a", "w">>, 0, << 5000, 100, 0, 200 >>),
      Food(4, <<"A", "p", "p", "l", "e", ",", " ", "R", "a", "w">>, 100, << 5200, 0, 900, 100 >>) }

SeqsUpTo(S, n) == UNION { [1..k -> S] : k \in 0..n }

\* the cleaned tables: at most MaxRows rows, one per description
Tables ==
    { EmptyFrame } \cup
    { [columns |-> TableColumns, rows |-> rows] :
        rows \in { r \in SeqsUpTo(FoodPool, MaxRows) :
                     \A i, j \in 1..Len(r) : i # j => r[i] # r[j] } }

FoodNames ==
    { <<"A", "p", "p", "l", "e">>, <<"a", "p", "p", "l", "e">>, <<"A", "p", "p", "l", "e", " ", "(", "R", "a", "w", ")">>, <<"a", "p", ".", "l", "e">>, <<"A", "p", "p", "l", "e", " ", "(">>, <<"(", "x", ")">>,
      <<"a", "p", "p", "l", "e", " ", "r", "a", "w">>, <<"a", "p", "p", "l", "e", ",", " ", "r", "a", "w">>, <<"P", "e", "a", "r">> }

NutrientNames ==
    { <<"i", "r", "o", "n">>, <<"I", "R", "O", "N">>, <<"m", "g">>, <<"v", "i", "t", "a", "m", "i", "n">>, <<"f", "a", "t">>, <<"s", "i", "z", "e">>, <<"i", "d">>, <<"z", "z", "z">> }

TopNs == (0 - 1)..MaxTopN

ItemPool ==
    { [food |-> <<"A", "p", "p", "l", "e">>, amount_g |-> 50],
      [food |-> <<"A", "p", "p", "l", "e">>, amount_g |-> 100],
      [food |-> <<"A", "p", "p", "l", "e">>, amount_g |-> 0 - 50],
      [food |-> <<"A", "p", "p", "l", "e", " ", "(", "R", "a", "w", ")">>, amount_g |-> 100],
      [food |-> <<"a", "p", ".", "l", "e">>, amount_g |-> 100],
      [food |-> <<"A", "p", "p", "l", "e", " ", "(">>, amount_g |-> 50] }

ItemLists == SeqsUpTo(ItemPool, MaxItems)

RegistryKeys == { load_official_guidelines[i].key : i \in 1..Len(load_official_guidelines) }

RequestKeys == RegistryKeys \cup { <<"z", "z", "z">> }

\* column identifiers given to match_nutrient_key
Identifiers ==
    RegistryKeys \cup { NutrientCols[i] : i \in 1..Len(NutrientCols) } \cup
    { << >>, <<"I", "r", "o", "n", "_", "m", "g">>, <<"I", "R", "O", "N", "_", "M", "G">>, <<"t", "o", "t", "a", "l", "_", "i", "r", "o", "n", "_", "m", "g">>, <<"i", "r", "o", "n", "_", "f", "e", "_", "m", "g">>, <<"i", "r", "o", "n", "m", "g">>,
      <<"i", "r", "o", "n">>, <<"v", "i", "t", "a", "m", "i", "n", "c", "_", "m", "g">>, <<"v", "i", "t", "a", "m", "i", "n", "_", "c", "_", "m", "g", "_", "t", "o", "t", "a", "l">>, <<"V", "i", "t", "a", "m", "i", "n", "_", "c", "_", "m", "g", "_", "x">>,
      <<"v", "i", "t", "a", "m", "i", "n", "_", "d", "_", "u", "g", "_", "v", "i", "t", "a", "m", "i", "n", "_", "a", "_", "u", "g">>, <<"x", "v", "i", "t", "a", "m", "i", "n", "_", "b", "1", "2", "_", "u", "g">>, <<"v", "i", "t", "a", "m", "i", "n", "_", "b", "1", "_", "u", "g">>,
      <<"s", "u", "g", "a", "r", "s", "_", "g", "_", "a", "d", "d", "e", "d">> }

\* one-row profiles around the thresholds of every registry key
BoundaryAmounts(req) ==
    { 0 } \cup
    (IF IsNone(req.rda) THEN {}
     ELSE { req.rda[1] - 1, req.rda[1], req.rda[1] + 1 }) \cup
    (IF IsNone(req.upper_limit) THEN {}
     ELSE { req.upper_limit[1] - 1, req.upper_limit[1], req.upper_limit[1] + 1 })

BoundaryProfiles(g, sex) ==
    UNION { { [columns |-> << "nutrient", "total_amount" >>,
               rows |-> << [nutrient |-> k, total_amount |-> a] >>] :
                a \in BoundaryAmounts(get_requirement(g, k, sex)) } :
            k \in RegistryKeys }

----------------------------------------------------------------------------
(* The state machine.  The registry, the configured gender and the cleaned *)
(* table are built by the constructors; a caller then issues one request   *)
(* at a time (pc = "idle"), receives its result in `ret` (pc = "returned") *)
(* and consumes it.                                                        *)

NoCall == [op |-> "none"]

NoRet == [raised |-> FALSE]

Init ==
    /\ guidelines = load_official_guidelines
    /\ gender \in Genders
    /\ df \in Tables
    /\ client = [cache |-> {}]
    /\ pc = "idle"
    /\ call = NoCall
    /\ ret = NoRet

Returns(c, r) ==
    /\ pc' = "returned"
    /\ call' = c
    /\ ret' = r
    /\ UNCHANGED << guidelines, gender, df, client >>

GetRequirement ==
    /\ pc = "idle"
    /\ \E key \in RequestKeys, sex \in RequestGenders :
        Returns([op |-> "get_requirement", nutrient_key |-> key, gender |-> sex],
                [raised |-> FALSE, value |-> get_requirement(guidelines, key, sex)])

MatchNutrientKey ==
    /\ pc = "idle"
    /\ \E col \in Identifiers :
        Returns([op |-> "match_nutrient_key", nutrient_column |-> col],
                [raised |-> FALSE, value |-> match_nutrient_key(guidelines, col)])

GetAvailableNutrients ==
    /\ pc = "idle"
    /\ Returns([op |-> "get_available_nutrients"],
            [raised |-> FALSE, value |-> get_available_nutrients(df)])

GetFoodNutrients ==
    /\ pc = "idle"
    /\ \E food_name \in FoodNames :
        Returns([op |-> "get_food_nutrients", food_name |-> food_name],
                get_food_nutrients(df, food_name))

GetTopFoodsForNutrient ==
    /\ pc = "idle"
    /\ \E nutrient_name \in NutrientNames, top_n \in TopNs :
        \E r \in get_top_foods_for_nutrient(df, nutrient_name, top_n) :
            Returns([op |-> "get_top_foods_for_nutrient",
                     nutrient_name |-> nutrient_name, top_n |-> top_n], r)

GetNutrientProfile ==
    /\ pc = "idle"
    /\ \E food_items \in ItemLists :
        Returns([op |-> "get_nutrient_profile", food_items |-> food_items],
                get_nutrient_profile(df, guidelines, gender, food_items))

\* check_daily_requirements on a profile the caller built
CheckDailyRequirements ==
    /\ pc = "idle"
    /\ \E profile \in BoundaryProfiles(guidelines, gender) :
        Returns([op |-> "check_daily_requirements", nutrient_profile |-> profile],
                check_daily_requirements(guidelines, gender, profile))

\* check_daily_requirements on the profile get_nutrient_profile returned
CheckReturnedProfile ==
    /\ pc = "returned"
    /\ call.op = "get_nutrient_profile"
    /\ ~ret.raised
    /\ call' = [op |-> "check_daily_requirements", nutrient_profile |-> ret.frame]
    /\ ret' = check_daily_requirements(guidelines, gender, ret.frame)
    /\ UNCHANGED << guidelines, gender, df, client, pc >>

GetAllRequirements ==
    /\ pc = "idle"
    /\ \E sex \in RequestGenders :
        Returns([op |-> "get_all_requirements", gender |-> sex],
                [raised |-> FALSE, value |-> get_all_requirements(guidelines, sex)])

\* save_to_json: the result holds the document written to the file
SaveToJson ==
    /\ pc = "idle"
    /\ Returns([op |-> "save_to_json"],
            [raised |-> FALSE, value |-> save_to_json(guidelines)])

\* the results a call can return from the present registry and table
Results(c) ==
    CASE c.op = "get_requirement" ->
            { [raised |-> FALSE,
               value |-> get_requirement(guidelines, c.nutrient_key, c.gender)] }
      [] c.op = "get_all_requirements" ->
            { [raised |-> FALSE, value |-> get_all_requirements(guidelines, c.gender)] }
      [] c.op = "match_nutrient_key" ->
            { [raised |-> FALSE,
               value |-> match_nutrient_key(guidelines, c.nutrient_column)] }
      [] c.op = "save_to_json" ->
            { [raised |-> FALSE, value |-> save_to_json(guidelines)] }
      [] c.op = "get_available_nutrients" ->
            { [raised |-> FALSE, value |-> get_available_nutrients(df)] }
      [] c.op = "get_food_nutrients" -> { get_food_nutrients(df, c.food_name) }
      [] c.op = "get_top_foods_for_nutrient" ->
            get_top_foods_for_nutrient(df, c.nutrient_name, c.top_n)
      [] c.op = "get_nutrient_profile" ->
            { get_nutrient_profile(df, guidelines, gender, c.food_items) }
      [] c.op = "check_daily_requirements" ->
            { check_daily_requirements(guidelines, gender, c.nutrient_profile) }

\* the caller repeats the call it has the result of, with the same arguments
RepeatCall ==
    /\ pc = "returned"
    /\ call.op # "__init__"
    /\ \E r \in Results(call) :
        /\ ret' = r
        /\ UNCHANGED << guidelines, gender, df, client, pc, call >>

\* the caller consumes the result
Consume ==
    /\ pc = "returned"
    /\ pc' = "idle"
    /\ call' = NoCall
    /\ ret' = NoRet
    /\ UNCHANGED << guidelines, gender, df, client >>

Next ==
    \/ GetRequirement
    \/ MatchNutrientKey
    \/ GetAvailableNutrients
    \/ GetFoodNutrients
    \/ GetTopFoodsForNutrient
    \/ GetNutrientProfile
    \/ CheckDailyRequirements
    \/ GetAllRequirements
    \/ SaveToJson
    \/ CheckReturnedProfile
    \/ RepeatCall
    \/ Consume

Spec == Init /\ [][Next]_vars

----------------------------------------------------------------------------
(* The construction of the processor: NutrientProcessor.__init__ reads the *)
(* database file and _clean_data cleans it.  SpecLoad starts before the    *)
(* constructor has run (pc = "new") and continues with the requests.       *)

\* a record of the file: a food and the nutrient columns that are null in it
RawFood(food, nulls) == [food |-> food, nulls |-> nulls]

\* the records a database file is drawn from; the first two share their
\* description, the second has null amounts
RawPool ==
    { RawFood(Food(1, <<"A", "p", "p", "l", "e">>, 100, << 5200, 2600, 500, 0 >>), {}),
      RawFood(Food(5, <<"A", "p", "p", "l", "e">>, 50, << 0, 1300, 0, 500 >>), { 1, 3 }),
      RawFood(Food(2, <<"A", "p", "p", "l", "e", " ", "(", "R", "a", "w", ")">>, 50, << 2600, 1300, 400, 1000 >>), {}) }

\* the database files: no file, a file that cannot be read, or a parquet
\* file of at most MaxRows records (zero records included)
Databases ==
    { [kind |-> "missing"], [kind |-> "unreadable"] } \cup
    { [kind |-> "parquet", rows |-> rows] : rows \in SeqsUpTo(RawPool, MaxRows) }

\* pl.col(col).fill_null(0.0) on the nutrient columns
FillNull(raw) ==
    Food(raw.food.fdc_id, raw.food.description, raw.food.serving_size,
         [i \in 1..Len(raw.food.amount) |->
            IF i \in raw.nulls THEN 0 ELSE raw.food.amount[i]])

\* DataFrame.unique(subset=["description"]): keep="any" and
\* maintain_order=False, so one row of every description is kept, whichever,
\* in whatever order
Unique(rows) ==
    LET n == Len(rows)
    IN  { [i \in 1..Len(s) |-> rows[s[i]]] : s \in
            { s \in SeqsUpTo(1..n, n) :
                /\ \A i, j \in 1..Len(s) :
                      i # j => rows[s[i]].food.description # rows[s[j]].food.description
                /\ \A k \in 1..n : \E i \in 1..Len(s) :
                      rows[s[i]].food.description = rows[k].food.description } }

\* the rows _clean_data can leave in self.df
clean_data(rows) ==
    IF rows = << >> THEN { << >> }
    ELSE { [i \in 1..Len(kept) |-> FillNull(kept[i])] : kept \in Unique(rows) }

\* the tables __init__ can leave in self.df
LoadedTables(database) ==
    IF database.kind # "parquet" THEN { EmptyFrame }
    ELSE { [columns |-> TableColumns, rows |-> rows] : rows \in clean_data(database.rows) }

InitLoad ==
    /\ guidelines = << >>
    /\ gender = "average"
    /\ df = EmptyFrame
    /\ client = [cache |-> {}]
    /\ pc = "new"
    /\ call = NoCall
    /\ ret = NoRet

\* NutrientProcessor(database_path, gender)
Construct ==
    /\ pc = "new"
    /\ \E database \in Databases, sex \in Genders :
        \E table \in LoadedTables(database) :
            /\ guidelines' = load_official_guidelines
            /\ gender' = sex
            /\ df' = table
            /\ pc' = "returned"
            /\ call' = [op |-> "__init__", database |-> database, gender |-> sex]
            /\ ret' = NoRet
            /\ UNCHANGED client

NextLoad ==
    \/ Construct
    \/ Next

SpecLoad == InitLoad /\ [][NextLoad]_vars

----------------------------------------------------------------------------
(* USDAFoodDataClient.search_foods and get_food_nutrients: the cache       *)
(* lookup and the request loop.  `client.cache` is the set of cache files; *)
(* a call that misses the cache is in the loop (pc = "loop") until it      *)
(* returns or raises, and `call` carries the loop's attempt, the waits     *)
(* slept and the requests sent.                                            *)

RECURSIVE ReplaceChar(_, _, _)
ReplaceChar(s, from, to) ==
    IF s = << >> THEN << >>
    ELSE << IF Head(s) = from THEN to ELSE Head(s) >> \o ReplaceChar(Tail(s), from, to)

\* the search queries and food ids of the requests
Queries == { <<"a", "p", "p", "l", "e">>, <<"r", "a", "w", " ", "a", "p", "p", "l", "e">> }

FdcIds == { 1, 2 }

\* the cache file of a request
SearchCacheFile(query) ==
    [prefix |-> "search_", name |-> ReplaceChar(query, " ", "_"), id |-> 0]

FoodCacheFile(fdc_id) == [prefix |-> "food_", name |-> << >>, id |-> fdc_id]

CacheFiles ==
    { SearchCacheFile(q) : q \in Queries } \cup { FoodCacheFile(i) : i \in FdcIds }

\* the HTTP status of a response
Statuses == { 200, 429, 500 }

RECURSIVE Pow(_, _)
Pow(b, n) == IF n = 0 THEN 1 ELSE b * Pow(b, n - 1)

\* wait_time = 5 * (3**attempt)
WaitTime(attempt) == 5 * Pow(3, attempt)

\* whether the loop sleeps and tries again after a failed attempt
Retries(status, attempt, max_retries) ==
    status = 429 /\ attempt < max_retries - 1

InitClient ==
    /\ guidelines = << >>
    /\ gender = "average"
    /\ df = EmptyFrame
    /\ client \in { [cache |-> files] : files \in SUBSET CacheFiles }
    /\ pc = "idle"
    /\ call = NoCall
    /\ ret = NoRet

\* the start of a call: the cached response when the cache file exists,
\* the request loop otherwise
Enter(op, file, max_retries) ==
    /\ call' = [op |-> op, file |-> file, max_retries |-> max_retries,
                cached |-> file \in client.cache,
                attempt |-> 0, slept |-> << >>, requests |-> 0]
    /\ IF file \in client.cache
       THEN /\ pc' = "returned"
            /\ ret' = [raised |-> FALSE, value |-> "data"]
       ELSE /\ pc' = "loop"
            /\ ret' = NoRet
    /\ UNCHANGED << guidelines, gender, df, client >>

SearchFoods ==
    /\ pc = "idle"
    /\ \E query \in Queries, max_retries \in 0..MaxRetries :
        Enter("search_foods", SearchCacheFile(query), max_retries)

FoodDetails ==
    /\ pc = "idle"
    /\ \E fdc_id \in FdcIds, max_retries \in 0..MaxRetries :
        Enter("get_food_nutrients", FoodCacheFile(fdc_id), max_retries)

\* the loop is over without a request having returned or raised: return {}
LoopExhausted ==
    /\ pc = "loop"
    /\ call.attempt >= call.max_retries
    /\ pc' = "returned"
    /\ ret' = [raised |-> FALSE, value |-> "empty"]
    /\ UNCHANGED << guidelines, gender, df, client, call >>

\* one pass of the loop: the request, and what follows its response
RequestAttempt ==
    /\ pc = "loop"
    /\ call.attempt < call.max_retries
    /\ \E status \in Statuses :
        LET sent == [call EXCEPT !.requests = @ + 1]
        IN  IF status = 200
            THEN /\ client' = [client EXCEPT !.cache = @ \cup { call.file }]
                 /\ call' = sent
                 /\ pc' = "returned"
                 /\ ret' = [raised |-> FALSE, value |-> "data"]
                 /\ UNCHANGED << guidelines, gender, df >>
            ELSE IF Retries(status, call.attempt, call.max_retries)
            THEN /\ call' = [sent EXCEPT !.slept = Append(@, WaitTime(call.attempt)),
                                         !.attempt = @ + 1]
                 /\ UNCHANGED << guidelines, gender, df, client, pc, ret >>
            ELSE /\ call' = sent
                 /\ pc' = "returned"
                 /\ ret' = [raised |-> TRUE, status |-> status]
                 /\ UNCHANGED << guidelines, gender, df, client >>

NextClient ==
    \/ SearchFoods
    \/ FoodDetails
    \/ LoopExhausted
    \/ RequestAttempt
    \/ Consume

SpecClient == InitClient /\ [][NextClient]_vars

----------------------------------------------------------------------------
(* The claims.  A request's claim is read in the state that holds its      *)
(* result: pc = "returned" and call.op names the operation.                *)

Returned(op) == pc = "returned" /\ call.op = op

\* rows whose lowercased description literally contains `text`
LiteralRows(frame, text) ==
    LET hit(row) == Contains(Lower(row.description), text)
    IN  SelectSeq(frame.rows, hit)

\* C1: get_food_nutrients tries exact match, then the literal
\* case-insensitive substring, then the substring of the parenthesis-stripped,
\* trimmed, lowercased query, stops at the first tier with a record, and
\* returns empty, without raising, when no tier matches.
C1_TieredResolve ==
    Returned("get_food_nutrients") =>
        LET q == call.food_name
            t1 == ExactMatches(df, q)
            t2 == LiteralRows(df, Lower(q))
            t3 == LiteralRows(df, Lower(Strip(StripParens(q))))
        IN  /\ ~ret.raised
            /\ ret.matches = (IF t1 # << >> THEN t1 ELSE IF t2 # << >> THEN t2 ELSE t3)
            /\ ret.tier = (IF t1 # << >> THEN 1 ELSE IF t2 # << >> THEN 2
                           ELSE IF t3 # << >> THEN 3 ELSE 0)
            /\ (ret.matches = << >> => ret.frame = EmptyFrame)

\* a query that only the third tier resolves, in a table where the first two
\* tiers were tried and found nothing
C1_Witness ==
    /\ Returned("get_food_nutrients")
    /\ ret.tier = 3
    /\ ret.matches # << >>
    /\ ExactMatches(df, call.food_name) = << >>
    /\ LiteralRows(df, Lower(call.food_name)) = << >>
    /\ Strip(StripParens(call.food_name)) # << >>

\* the first record the three tiers of get_food_nutrients give a query
FirstResolved(frame, food_name) ==
    LET r == Resolve(frame, food_name)
    IN  IF r.matches = << >> THEN None ELSE Some(r.matches[1])

\* text without a character that a regular expression reads as syntax
IsPlain(s) ==
    \A i \in 1..Len(s) :
        s[i] \notin { "(", ")", "[", "]", "{", "}", "?", "*", "+", "|", "^", "$",
                      "\\", "." }

\* C2: for every item, get_nutrient_profile scales the first record that the
\* three-tier resolution of get_food_nutrients returns for the item's food,
\* and contributes nothing exactly when that resolution is empty.  Stated
\* for the requests whose food names are plain text, where the pattern
\* reading of the name plays no part.
C2_AggregateUsesResolve ==
    (Returned("get_nutrient_profile") /\ ~ret.raised /\ ~IsEmpty(df)
        /\ \A i \in 1..Len(call.food_items) : IsPlain(call.food_items[i].food)) =>
        \A i \in 1..Len(call.food_items) :
            ret.used[i] = FirstResolved(df, call.food_items[i].food)

\* C3: in every substring tier the query is literal text: a record matches
\* only if its lowercased description contains the lowercased query text, and
\* no query makes the operation fail on its pattern.
C3_LiteralQuery ==
    /\ Returned("get_food_nutrients") =>
          /\ ~ret.raised
          /\ ret.tier = 2 =>
                \A i \in 1..Len(ret.matches) :
                    Contains(Lower(ret.matches[i].description), Lower(call.food_name))
          /\ ret.tier = 3 =>
                \A i \in 1..Len(ret.matches) :
                    Contains(Lower(ret.matches[i].description),
                             Lower(Strip(StripParens(call.food_name))))
    /\ Returned("get_nutrient_profile") =>
          /\ ret.error # "regex"
          /\ \A i \in 1..Len(ret.used) :
                ret.used[i] # None =>
                    Contains(Lower(ret.used[i][1].description),
                             Lower(call.food_items[i].food))

\* the classification of the claim: `defined` is `not None`
ClaimedStatus(min, max, amount) ==
    IF ~IsNone(min) /\ amount < min[1] THEN "below_minimum"
    ELSE IF ~IsNone(max) /\ amount > max[1] THEN "above_maximum"
    ELSE "adequate"

\* C4: check_daily_requirements reports every registry-matched nutrient of
\* the profile with the rda and upper_limit of its requirement, classified
\* below_minimum if rda is defined and amount < rda, else above_maximum if
\* upper_limit is defined and amount > upper_limit, else adequate; an amount
\* equal to rda or to upper_limit is adequate.
C4_Classification ==
    (Returned("check_daily_requirements") /\ ~ret.raised) =>
        \A i \in 1..Len(ret.status) :
            LET e == ret.status[i]
                req == get_requirement(guidelines,
                                       match_nutrient_key(guidelines, e.nutrient), gender)
            IN  /\ e.min = req.rda
                /\ e.max = req.upper_limit
                /\ e.status = ClaimedStatus(e.min, e.max, e.amount)
                /\ (~IsNone(e.min) /\ e.amount = e.min[1]) => e.status = "adequate"
                /\ (~IsNone(e.max) /\ e.amount = e.max[1]
                        /\ (IsNone(e.min) \/ e.amount >= e.min[1])) => e.status = "adequate"

RECURSIVE SumSeq(_)
SumSeq(s) == IF s = << >> THEN 0 ELSE Head(s) + SumSeq(Tail(s))

\* the contribution of item i of the request to nutrient column `col`, as the
\* numerator over the item's serving size: amount * consumed_grams
ContributionTimesServing(i, col) ==
    IF ret.used[i] = None THEN 0
    ELSE Cell(ret.used[i][1], col) * call.food_items[i].amount_g

\* the total of nutrient `nutrient` in a returned profile, 0 when absent
TotalOf(frame, nutrient) ==
    IF \E j \in 1..Len(frame.rows) : frame.rows[j].nutrient = nutrient
    THEN frame.rows[CHOOSE j \in 1..Len(frame.rows) :
                        frame.rows[j].nutrient = nutrient].total_amount
    ELSE 0

\* the request with the consumed grams of item i doubled
Doubled(items, i) ==
    [items EXCEPT ![i] = [food |-> items[i].food, amount_g |-> 2 * items[i].amount_g]]

\* C5: every matched item contributes amount[key] * consumed_grams /
\* serving_size to the total of every nutrient key, a total is the sum of the
\* items' contributions, and doubling one item's consumed_grams adds that
\* item's contribution once more to every total.
C5_LinearAdditive ==
    (Returned("get_nutrient_profile") /\ ~ret.raised /\ ret.frame # EmptyFrame) =>
        /\ \A j \in 1..Len(ret.frame.rows) :
              LET col == ret.frame.rows[j].nutrient
                  parts == [i \in 1..Len(ret.used) |->
                              IF ret.used[i] = None THEN 0
                              ELSE Div(ContributionTimesServing(i, col),
                                       ret.used[i][1].serving_size)]
              IN  /\ \A i \in 1..Len(ret.used) :
                        ret.used[i] # None =>
                            parts[i] * ret.used[i][1].serving_size
                                = ContributionTimesServing(i, col)
                  /\ ret.frame.rows[j].total_amount = SumSeq(parts)
        /\ \A i \in 1..Len(ret.used) :
              ret.used[i] # None =>
                 LET twice == get_nutrient_profile(df, guidelines, gender,
                                                   Doubled(call.food_items, i))
                 IN  /\ ~twice.raised
                     /\ \A j \in 1..Len(ret.frame.rows) :
                           LET col == ret.frame.rows[j].nutrient
                           IN  (TotalOf(twice.frame, col) - ret.frame.rows[j].total_amount)
                                   * ret.used[i][1].serving_size
                               = ContributionTimesServing(i, col)

\* two items of the same food at different consumed grams, both scaled, with
\* a serving size other than 100
C5_Witness ==
    /\ Returned("get_nutrient_profile")
    /\ ~ret.raised
    /\ Len(ret.used) = 2
    /\ ret.used[1] # None
    /\ ret.used[1] = ret.used[2]
    /\ call.food_items[1].food = call.food_items[2].food
    /\ ret.used[1][1].serving_size = 50
    /\ call.food_items[2].amount_g = 2 * call.food_items[1].amount_g
    /\ \E j \in 1..Len(ret.frame.rows) : ret.frame.rows[j].total_amount > 0

\* the items of a request that are valid: consumed grams > 0, and a matched
\* record, if any, with serving_size > 0
ValidItem(item) ==
    /\ item.amount_g > 0
    /\ LET m == ItemMatches(df, item.food)
       IN  m = << >> \/ m[1].serving_size > 0

\* C6: an item with consumed_grams <= 0, or whose matched record has
\* serving_size <= 0, contributes nothing, and the aggregation completes with
\* the totals of the remaining valid items.
C6_InvalidItemsSkipped ==
    (Returned("get_nutrient_profile") /\ ret.error # "regex" /\ ~IsEmpty(df)) =>
        LET valid == SelectSeq(call.food_items, ValidItem)
        IN  /\ ~ret.raised
            /\ ret.frame = get_nutrient_profile(df, guidelines, gender, valid).frame

\* C7: match_nutrient_key returns the identifier when it is a registry key;
\* otherwise the first registry key, in definition order, whose first
\* underscore-delimited segment occurs case-insensitively in the identifier
\* and whose underscore-stripped form is a substring of the
\* underscore-stripped identifier; otherwise empty.  The result is empty or
\* a registry key.
C7_MatchNutrientKey ==
    Returned("match_nutrient_key") =>
        LET id == call.nutrient_column
            keys == [i \in 1..Len(guidelines) |-> guidelines[i].key]
            accepts(i) ==
                /\ Contains(Lower(id), Lower(FirstSegment(keys[i], "_")))
                /\ Contains(RemoveChar(id, "_"), RemoveChar(keys[i], "_"))
        IN  /\ ret.value = << >> \/ InSeq(ret.value, keys)
            /\ InSeq(id, keys) => ret.value = id
            /\ ~InSeq(id, keys) =>
                  /\ (\E i \in 1..Len(keys) : accepts(i)) =>
                        \E i \in 1..Len(keys) :
                            /\ accepts(i)
                            /\ \A k \in 1..(i - 1) : ~accepts(k)
                            /\ ret.value = keys[i]
                  /\ (\A i \in 1..Len(keys) : ~accepts(i)) => ret.value = << >>

\* an identifier that is no registry key, that two registry keys accept, and
\* that is matched to the earlier of them
C7_Witness ==
    /\ Returned("match_nutrient_key")
    /\ ~HasKey(guidelines, call.nutrient_column)
    /\ ret.value # << >>
    /\ Cardinality(FuzzyIndex(guidelines, call.nutrient_column)) >= 2

\* whether `rda` is the rda the claim gives the sex `average`
IsClaimedAverage(rda, rda_male, rda_female) ==
    IF ~IsNone(rda_male) /\ ~IsNone(rda_female)
    THEN ~IsNone(rda) /\ 2 * rda[1] = rda_male[1] + rda_female[1]
    ELSE IF ~IsNone(rda_male) THEN rda = rda_male
    ELSE IF ~IsNone(rda_female) THEN rda = rda_female
    ELSE IsNone(rda)

\* requirements with every combination of defined and absent rda
SampleRdas == { None, Some(800), Some(1800) }

\* C8: get_requirement with sex = average returns the mean of rda_male and
\* rda_female when both are defined (iron: 8 and 18 give 13), the one defined
\* value when only one is, and an absent rda when neither is; for the
\* upper-limit-only keys rda is absent and upper_limit is defined for every
\* sex in {male, female, average}.
C8_AverageRda ==
    /\ (Returned("get_requirement") /\ HasKey(guidelines, call.nutrient_key)) =>
          LET req == Lookup(guidelines, call.nutrient_key)
          IN  /\ ~ret.value.empty
              /\ call.gender = "average" =>
                    IsClaimedAverage(ret.value.rda, req.rda_male, req.rda_female)
              /\ (call.gender = "average" /\ req.name = "Iron") => ret.value.rda = Some(1300)
              /\ (call.gender \in Genders /\ IsNone(req.rda_male) /\ IsNone(req.rda_female)) =>
                    /\ IsNone(ret.value.rda)
                    /\ ~IsNone(ret.value.upper_limit)
              /\ (call.gender \in Genders
                    /\ req.name \in { "Saturated Fat", "Cholesterol", "Added Sugars" }) =>
                    /\ IsNone(ret.value.rda)
                    /\ ~IsNone(ret.value.upper_limit)
    /\ (Returned("get_requirement") /\ call.gender = "average") =>
          \A m \in SampleRdas, f \in SampleRdas :
              LET g == << NutrientRequirement(<< "x" >>, m, f, None, "mg", "X") >>
              IN  IsClaimedAverage(get_requirement(g, << "x" >>, "average").rda, m, f)

\* the average requirement of iron, whose two rdas differ
C8_Witness ==
    /\ Returned("get_requirement")
    /\ call.gender = "average"
    /\ HasKey(guidelines, call.nutrient_key)
    /\ Lookup(guidelines, call.nutrient_key).rda_male = Some(800)
    /\ Lookup(guidelines, call.nutrient_key).rda_female = Some(1800)
    /\ ret.value.rda = Some(1300)

\* C9: get_top_foods_for_nutrient ranks by the first non-metadata column, in
\* table-column order, whose name contains the substring case-insensitively,
\* never by one of the five metadata columns, and returns empty when no
\* nutrient key contains the substring.
C9_RanksByNutrientKey ==
    (Returned("get_top_foods_for_nutrient") /\ ~IsEmpty(df)) =>
        LET hit(col) == Contains(Lower(col), Lower(call.nutrient_name))
            keys == SelectSeq(get_available_nutrients(df), hit)
        IN  /\ ~ret.raised
            /\ ~InSeq(ret.nutrient_col, MetadataCols)
            /\ keys = << >> => ret.frame = EmptyFrame
            /\ keys # << >> => ret.nutrient_col = keys[1]

\* C10: get_top_foods_for_nutrient never returns a record whose serving_size
\* is <= 0, nor one whose amount in the selected column is <= 0.
C10_RankExcludesBadRows ==
    (Returned("get_top_foods_for_nutrient") /\ ~ret.raised
        /\ InSeq(ret.nutrient_col, NutrientCols)) =>
        \A i \in 1..Len(ret.frame.rows) :
            /\ ret.frame.rows[i].serving_size > 0
            /\ ret.frame.rows[i].amount_per_100g > 0

\* the rows of the table all have a positive serving size
PositiveServings(frame) ==
    \A i \in 1..Len(frame.rows) : frame.rows[i].serving_size > 0

\* rows is the first n rows of the stable descending order of eligible:
\* descending by amount_per_ounce, equal amounts in table order
IsStableTop(rows, eligible, n) ==
    \E f \in IndexPermutations(Len(eligible)) :
        /\ \A i \in 1..(Len(eligible) - 1) :
              LET a == eligible[f[i]].amount_per_ounce
                  b == eligible[f[i + 1]].amount_per_ounce
              IN  /\ ApoGeq(a, b)
                  /\ ApoGeq(b, a) => f[i] < f[i + 1]
        /\ rows = [i \in 1..n |-> eligible[f[i]]]

\* C11: for top_n >= 0, get_top_foods_for_nutrient returns exactly the first
\* min(top_n, k) of the k eligible records sorted descending by
\* amount_per_ounce, records of equal amount_per_ounce in their table order;
\* top_n = 0 yields an empty result.  Stated for the requests that rank by a
\* nutrient column of a table whose serving sizes are all positive.
C11_StableTopN ==
    (Returned("get_top_foods_for_nutrient") /\ ~ret.raised /\ call.top_n >= 0
        /\ InSeq(ret.nutrient_col, NutrientCols) /\ PositiveServings(df)) =>
        LET eligible == RankCandidates(df, ret.nutrient_col)
            k == Len(eligible)
            n == IF call.top_n < k THEN call.top_n ELSE k
        IN  /\ IsStableTop(ret.frame.rows, eligible, n)
            /\ call.top_n = 0 => ret.frame.rows = << >>

\* C12: get_top_foods_for_nutrient with a negative top_n fails; it never
\* returns a ranking, empty or not.  Stated for the requests that name a
\* nutrient column of a non-empty table, where the ranking is computed.
C12_NegativeTopNRejected ==
    (Returned("get_top_foods_for_nutrient") /\ call.top_n < 0
        /\ InSeq(ret.nutrient_col, NutrientCols)) =>
        ret.raised

\* C13, as claimed: for every record get_top_foods_for_nutrient returns,
\* amount_per_ounce = amount_per_100g * 28.3495 / serving_size.  Amounts are
\* hundredths and amount_per_ounce ten-thousandths, so both sides are
\* compared in millionths.  Stated for the rankings by a nutrient column
\* and their records with a positive serving size.
C13_OunceConstantClaimed ==
    (Returned("get_top_foods_for_nutrient") /\ ~ret.raised
        /\ InSeq(ret.nutrient_col, NutrientCols)) =>
        \A i \in 1..Len(ret.frame.rows) :
            LET row == ret.frame.rows[i]
            IN  row.serving_size > 0 =>
                    /\ ~row.amount_per_ounce.inf
                    /\ row.amount_per_ounce.val * 100 * row.serving_size
                           = row.amount_per_100g * 283495

\* C13, amended: for every record get_top_foods_for_nutrient returns,
\* amount_per_ounce = amount_per_100g * 28.35 / serving_size, the float
\* quotient, which is infinite for a serving size of 0.  The quotient is
\* stated to the ten-thousandth the model keeps.
C13_OunceConstant ==
    (Returned("get_top_foods_for_nutrient") /\ ~ret.raised) =>
        \A i \in 1..Len(ret.frame.rows) :
            LET row == ret.frame.rows[i]
                apo == row.amount_per_ounce
            IN  IF row.serving_size = 0 THEN apo.inf
                ELSE /\ ~apo.inf
                     /\ apo.val * row.serving_size <= row.amount_per_100g * 2835
                     /\ row.amount_per_100g * 2835 < (apo.val + 1) * row.serving_size

\* a returned record whose serving size is 50 g: 13.0 mg of iron in 50 g is
\* 7.371 mg per ounce
C13_Witness ==
    /\ Returned("get_top_foods_for_nutrient")
    /\ ~ret.raised
    /\ \E i \in 1..Len(ret.frame.rows) :
          /\ ret.frame.rows[i].serving_size = 50
          /\ ret.frame.rows[i].amount_per_100g = 1300
          /\ ret.frame.rows[i].amount_per_ounce = [inf |-> FALSE, val |-> 73710]

\* the position of the first record of the file with the description
FirstOccurrence(raw, description) ==
    CHOOSE i \in 1..Len(raw) :
        /\ raw[i].food.description = description
        /\ \A j \in 1..(i - 1) : raw[j].food.description # description

\* C14: after __init__ has read and cleaned a file, the table holds exactly
\* one record per distinct description of the file, that record is the first
\* occurrence of the description in the file, and the records of the table
\* are in the order of the file.
C14_DeduplicateFirstStable ==
    (Returned("__init__") /\ call.database.kind = "parquet") =>
        LET raw == call.database.rows
            rows == df.rows
        IN  /\ \A k \in 1..Len(raw) :
                  Cardinality({ i \in 1..Len(rows) :
                                  rows[i].description = raw[k].food.description }) = 1
            /\ \A i \in 1..Len(rows) :
                  /\ \E k \in 1..Len(raw) : raw[k].food.description = rows[i].description
                  /\ rows[i].fdc_id
                        = raw[FirstOccurrence(raw, rows[i].description)].food.fdc_id
            /\ \A i, j \in 1..Len(rows) :
                  i < j => FirstOccurrence(raw, rows[i].description)
                              < FirstOccurrence(raw, rows[j].description)

\* the dataset is absent or empty: no file, an unreadable file, or a file of
\* zero records
AbsentOrEmpty(database) ==
    database.kind # "parquet" \/ database.rows = << >>

\* C15: when the dataset is absent or empty, __init__ leaves an empty table,
\* and on an empty table get_available_nutrients, get_food_nutrients,
\* get_top_foods_for_nutrient and get_nutrient_profile return an empty
\* result for every argument and do not raise.
C15_EmptyDataset ==
    /\ (Returned("__init__") /\ AbsentOrEmpty(call.database)) =>
          /\ ~ret.raised
          /\ df.rows = << >>
          /\ df.columns \in { << >>, TableColumns }
    /\ (Returned("__init__") /\ ~AbsentOrEmpty(call.database)) => df.rows # << >>
    /\ (Returned("get_available_nutrients") /\ df.rows = << >>) =>
          /\ ~ret.raised
          /\ ret.value = << >>
    /\ (pc = "returned" /\ df.rows = << >>
          /\ call.op \in { "get_food_nutrients", "get_top_foods_for_nutrient",
                           "get_nutrient_profile" }) =>
          /\ ~ret.raised
          /\ ret.frame = EmptyFrame

\* a ranking asked of the table left by a file of zero records, and an
\* aggregation asked of the table left by a missing file
C15_Witness ==
    /\ df.rows = << >>
    /\ \/ /\ Returned("get_top_foods_for_nutrient")
          /\ df.columns = TableColumns
          /\ call.top_n = MaxTopN
          /\ ret.frame = EmptyFrame
       \/ /\ Returned("get_nutrient_profile")
          /\ df = EmptyFrame
          /\ Len(call.food_items) = MaxItems
          /\ ret.frame = EmptyFrame

\* C16: check_daily_requirements does not raise on a profile that
\* get_nutrient_profile returned, and on the empty profile, returned for an
\* empty table or when no item resolves, it returns an empty status mapping.
C16_EvaluateTotal ==
    Returned("check_daily_requirements") =>
        /\ ~ret.raised
        /\ call.nutrient_profile = EmptyFrame => ret.status = << >>

\* no registry key is the identifier or is accepted for it by the fuzzy
\* rule of match_nutrient_key
NoRegistryMatch(id) ==
    \A i \in 1..Len(guidelines) :
        /\ guidelines[i].key # id
        /\ ~(/\ Contains(Lower(id), Lower(FirstSegment(guidelines[i].key, "_")))
             /\ Contains(RemoveChar(id, "_"), RemoveChar(guidelines[i].key, "_")))

\* no record of the table matches the query in any of the three tiers
NoFoodMatch(q) ==
    /\ ExactMatches(df, q) = << >>
    /\ LiteralRows(df, Lower(q)) = << >>
    /\ LiteralRows(df, Lower(Strip(StripParens(q)))) = << >>

\* no nutrient column of the table contains the name
NoNutrientColumn(name) ==
    \A i \in 1..Len(NutrientCols) : ~Contains(Lower(NutrientCols[i]), Lower(name))

\* C17: on a non-empty table a lookup that finds nothing returns an empty or
\* absent value and does not raise: get_requirement of an unknown key,
\* match_nutrient_key without a match, get_food_nutrients without a matching
\* food, get_top_foods_for_nutrient without a matching nutrient column.
C17_AbsentNotRaised ==
    ~IsEmpty(df) =>
        /\ (Returned("get_requirement") /\ ~HasKey(guidelines, call.nutrient_key)) =>
              /\ ~ret.raised
              /\ ret.value.empty
        /\ (Returned("match_nutrient_key") /\ NoRegistryMatch(call.nutrient_column)) =>
              /\ ~ret.raised
              /\ ret.value = << >>
        /\ (Returned("get_food_nutrients") /\ NoFoodMatch(call.food_name)) =>
              /\ ~ret.raised
              /\ ret.frame.rows = << >>
        /\ (Returned("get_top_foods_for_nutrient") /\ NoNutrientColumn(call.nutrient_name)) =>
              /\ ~ret.raised
              /\ ret.frame.rows = << >>

\* the rda of the registry key match_nutrient_key gives the nutrient, for
\* the configured sex; None without a key or without an rda
MatchedRda(nutrient) ==
    LET key == match_nutrient_key(guidelines, nutrient)
    IN  IF key = << >> \/ ~HasKey(guidelines, key) THEN None
        ELSE get_requirement(guidelines, key, gender).rda

\* C18: in a profile get_nutrient_profile returns, a nutrient has
\* daily_value_pct = (total_amount / rda) * 100 exactly when
\* match_nutrient_key maps it to a registry key whose requirement for the
\* configured sex has an rda; otherwise daily_value_pct is absent.  The
\* percentage is the fraction num / den.
C18_DailyValuePct ==
    (Returned("get_nutrient_profile") /\ ~ret.raised) =>
        \A j \in 1..Len(ret.frame.rows) :
            LET row == ret.frame.rows[j]
                rda == MatchedRda(row.nutrient)
                pct == row.daily_value_pct
            IN  /\ IsNone(rda) <=> IsNone(pct)
                /\ ~IsNone(pct) =>
                      /\ pct[1].den # 0
                      /\ pct[1].den = rda[1]
                      /\ pct[1].num = row.total_amount * 100

\* a profile for the female sex with a percentage for iron_mg (5.2 mg of
\* 18 mg) and none for energy_kcal, without a registry key, nor for
\* saturated_fat_g, whose requirement has an upper limit only
C18_Witness ==
    /\ Returned("get_nutrient_profile")
    /\ ~ret.raised
    /\ gender = "female"
    /\ \E j \in 1..Len(ret.frame.rows) :
          /\ ret.frame.rows[j].nutrient = <<"i", "r", "o", "n", "_", "m", "g">>
          /\ ret.frame.rows[j].total_amount = 2600
          /\ ret.frame.rows[j].daily_value_pct = Some([num |-> 260000, den |-> 1800])
    /\ \E j \in 1..Len(ret.frame.rows) :
          /\ ret.frame.rows[j].nutrient = <<"e", "n", "e", "r", "g", "y", "_", "k", "c", "a", "l">>
          /\ ret.frame.rows[j].total_amount > 0
          /\ ret.frame.rows[j].daily_value_pct = None
    /\ \E j \in 1..Len(ret.frame.rows) :
          /\ ret.frame.rows[j].nutrient = <<"s", "a", "t", "u", "r", "a", "t", "e", "d", "_", "f", "a", "t", "_", "g">>
          /\ ret.frame.rows[j].total_amount > 0
          /\ ret.frame.rows[j].daily_value_pct = None

\* the observation of a record and a nutrient column
Observation(record, col) ==
    [description |-> record.description, nutrient |-> col, amount |-> Cell(record, col)]

\* C19: the long form get_food_nutrients returns holds one observation for
\* exactly the pairs of a matched record and a nutrient column whose amount
\* is > 0, and its observations are in the order of the nutrient columns of
\* the table.
C19_LongForm ==
    (Returned("get_food_nutrients") /\ ~ret.raised /\ ret.matches # << >>) =>
        LET obs == ret.frame.rows
            records == 1..Len(ret.matches)
            cols == 1..Len(NutrientCols)
        IN  /\ \A k \in 1..Len(obs) : obs[k].amount > 0
            /\ \A i \in records, c \in cols :
                  Cell(ret.matches[i], NutrientCols[c]) > 0 =>
                      Cardinality({ k \in 1..Len(obs) :
                          obs[k] = Observation(ret.matches[i], NutrientCols[c]) }) = 1
            /\ \A k \in 1..Len(obs) :
                  \E i \in records, c \in cols :
                      obs[k] = Observation(ret.matches[i], NutrientCols[c])
            /\ \A k, l \in 1..Len(obs) :
                  k < l => IndexOf(obs[k].nutrient, NutrientCols)
                              <= IndexOf(obs[l].nutrient, NutrientCols)

\* two records matched by the substring tier, one of them with a nutrient
\* amount of 0, and the positive amounts of both reported
C19_Witness ==
    /\ Returned("get_food_nutrients")
    /\ ~ret.raised
    /\ ret.tier = 2
    /\ Len(ret.matches) = 2
    /\ \E i \in 1..2, c \in 1..Len(NutrientCols) :
          Cell(ret.matches[i], NutrientCols[c]) = 0
    /\ Len(ret.frame.rows) >= 5

\* the records of the table with the description "Apple, Raw"
AppleCommaRaw(rows) ==
    { i \in 1..Len(rows) : rows[i].description = <<"A", "p", "p", "l", "e", ",", " ", "R", "a", "w">> }

\* C20, as claimed: in a table holding the description "Apple, Raw", the
\* query "apple raw" finds no exact match and is resolved by the second
\* tier, which returns that record.
C20_AppleRawTier2Claimed ==
    (Returned("get_food_nutrients") /\ call.food_name = <<"a", "p", "p", "l", "e", " ", "r", "a", "w">>
        /\ AppleCommaRaw(df.rows) # {}) =>
        /\ ExactMatches(df, call.food_name) = << >>
        /\ ret.tier = 2
        /\ AppleCommaRaw(ret.matches) # {}

\* C20, amended: in a table holding the description "Apple, Raw", the query
\* "apple raw" finds no exact match and no tier returns that record, since
\* "apple raw" is no substring of "apple, raw"; the query "apple, raw" finds
\* no exact match and is resolved by the second tier, which returns that
\* record.
C20_AppleRawTier2 ==
    (Returned("get_food_nutrients") /\ AppleCommaRaw(df.rows) # {}) =>
        /\ call.food_name = <<"a", "p", "p", "l", "e", " ", "r", "a", "w">> =>
              /\ ExactMatches(df, call.food_name) = << >>
              /\ ~ret.raised
              /\ AppleCommaRaw(ret.matches) = {}
        /\ call.food_name = <<"a", "p", "p", "l", "e", ",", " ", "r", "a", "w">> =>
              /\ ExactMatches(df, call.food_name) = << >>
              /\ ~ret.raised
              /\ ret.tier = 2
              /\ AppleCommaRaw(ret.matches) # {}
              /\ \E k \in 1..Len(ret.frame.rows) :
                    ret.frame.rows[k].description = <<"A", "p", "p", "l", "e", ",", " ", "R", "a", "w">>

\* the query "apple, raw" resolved to the record "Apple, Raw" alone by the
\* second tier, in a table of two records
C20_Witness ==
    /\ Returned("get_food_nutrients")
    /\ call.food_name = <<"a", "p", "p", "l", "e", ",", " ", "r", "a", "w">>
    /\ Len(df.rows) = 2
    /\ ret.tier = 2
    /\ Len(ret.matches) = 1
    /\ ret.matches[1].description = <<"A", "p", "p", "l", "e", ",", " ", "R", "a", "w">>

Backoff(n) == [i \in 1..n |-> 5 * Pow(3, i - 1)]

\* C23: a call of search_foods or get_food_nutrients that misses the cache
\* and is answered 429 is retried up to max_retries times, after waits of
\* 5 s, 15 s and 45 s; it raises the 429 error only when the last of the
\* max_retries retries has failed, and raises any other HTTP error without
\* a further request.
C23_RetryBackoff ==
    (pc = "returned" /\ call.op \in { "search_foods", "get_food_nutrients" }
        /\ ~call.cached /\ call.requests > 0) =>
        /\ Len(call.slept) <= call.max_retries
        /\ call.slept = Backoff(Len(call.slept))
        /\ call.requests = Len(call.slept) + 1
        /\ (ret.raised /\ ret.status = 429) => Len(call.slept) = call.max_retries

\* C24: for every registry key and every sex in {male, female, average}, a
\* requirement with both rda and upper_limit has rda <= upper_limit, and
\* check_daily_requirements classifies every amount above upper_limit
\* above_maximum.
C24_RdaWithinUpperLimit ==
    /\ (Returned("get_requirement") /\ call.gender \in Genders
            /\ HasKey(guidelines, call.nutrient_key)) =>
          LET req == ret.value
          IN  (~IsNone(req.rda) /\ ~IsNone(req.upper_limit)) =>
                  req.rda[1] <= req.upper_limit[1]
    /\ (Returned("check_daily_requirements") /\ ~ret.raised) =>
          \A i \in 1..Len(ret.status) :
              LET e == ret.status[i]
              IN  /\ (~IsNone(e.min) /\ ~IsNone(e.max)) => e.min[1] <= e.max[1]
                  /\ (~IsNone(e.max) /\ e.amount > e.max[1]) =>
                        e.status = "above_maximum"

\* C25: when no record matches the query exactly or contains it, and the
\* query without its parenthesised segments, trimmed, is empty, the third
\* tier of get_food_nutrients matches no record and the result is empty.
C25_NoMatchOnEmptySearch ==
    (Returned("get_food_nutrients") /\ ~IsEmpty(df)
        /\ ExactMatches(df, call.food_name) = << >>
        /\ LiteralRows(df, Lower(call.food_name)) = << >>
        /\ Strip(StripParens(call.food_name)) = << >>) =>
        /\ ~ret.raised
        /\ ret.matches = << >>
        /\ ret.frame.rows = << >>

====
